---- MODULE Spec2Model ----
(***************************************************************************)
(* Conversational RAG pipeline of auto_get_arxiv_papers:                   *)
(*   agents/conversation_manager.py  ConversationManager (the store)       *)
(*   agents/enhanced_qa_agent.py     EnhancedQAAgent (rewrite, rerank,     *)
(*                                   answer, answer_stream)                *)
(* Strings of the program are modelled by tokens; len(content) is the      *)
(* table StrLen. datetime.now() is the logical clock `now`.                *)
(***************************************************************************)
EXTENDS Integers, Sequences, FiniteSets, TLC

VARIABLES
    conversations,  \* ConversationManager.conversations: id -> conversation
    now,            \* logical clock standing for datetime.now()
    issued,         \* ids uuid4 has already produced (never produced again)
    appended,       \* history variable: per id, every message appended so far
    ret,            \* what the last store operation returned
    rr,             \* a call of rerank_results: its arguments, then its result
    client_ok,      \* EnhancedQAAgent.client is set (an API key is configured)
    index_ok,       \* indexing_agent.is_available()
    corpus,         \* the hits the vector index holds, in its similarity order
    calls,          \* per caller, the frame of its answer / answer_stream call
    sched           \* TaskScheduler: running, tasks, loop and worker threads

storeVars == <<conversations, now, issued, appended>>
agentVars == <<client_ok, index_ok, corpus, calls, sched>>
otherVars == <<ret, rr, client_ok, index_ok, corpus, sched>>
vars == <<conversations, now, issued, appended, ret, rr,
          client_ok, index_ok, corpus, calls, sched>>

----------------------------------------------------------------------------
(* Program constants *)

max_history_length == 10
max_context_length == 8000
SystemPromptLen == 192

(* Bounds of the model *)

MaxTrimAppends == 22
MaxOtherMessages == 2
MaxStoreConversations == 2
MaxStoreMessages == 2
MaxTokens == 3
MaxChunks == 2

----------------------------------------------------------------------------
(* Values *)

ConvIds == {"c1", "c2"}
Roles == {"user", "assistant", "system"}

Min(a, b) == IF a < b THEN a ELSE b

\* Python s[-n:]: the last n elements for n > 0 (all of s when n >= len(s));
\* s[-0:] is s[0:], the whole list; for n < 0 it is s[|n|:].
PySliceLast(s, n) ==
    IF n = 0 THEN s
    ELSE IF n > 0
         THEN SubSeq(s, (IF Len(s) > n THEN Len(s) - n ELSE 0) + 1, Len(s))
         ELSE SubSeq(s, Min(-n, Len(s)) + 1, Len(s))

\* Python s[:n] for n >= 0.
PySliceFirst(s, n) == SubSeq(s, 1, Min(n, Len(s)))

----------------------------------------------------------------------------
(* ConversationManager *)

\* create_conversation: a fresh uuid4 id mapped to an empty conversation.
create_conversation(convs, id, t) ==
    [i \in DOMAIN convs \cup {id} |->
        IF i = id
        THEN [id |-> id, created_at |-> t, messages |-> <<>>, context |-> <<>>]
        ELSE convs[i]]

\* The message dict add_message builds. The 'sources' key is set only for an
\* assistant message with a truthy (non-empty) list: <<>> stands for "no key".
make_message(role, content, sources, t) ==
    [role |-> role, content |-> content, timestamp |-> t,
     sources |-> IF role = "assistant" /\ sources # <<>> THEN sources ELSE <<>>]

add_message_keeps_oldest(convs, id, role, content, sources, t) ==
    IF id \notin DOMAIN convs
    THEN [ok |-> FALSE, convs |-> convs]
    ELSE LET after == Append(convs[id].messages,
                             make_message(role, content, sources, t))
         IN  [ok |-> TRUE,
              convs |-> [convs EXCEPT ![id].messages =
                            PySliceFirst(after, max_history_length * 2)]]

\* add_message: False for an unknown id; else append, then trim to the most
\* recent max_history_length * 2 messages.
add_message(convs, id, role, content, sources, t) ==
    IF id \notin DOMAIN convs
    THEN [ok |-> FALSE, convs |-> convs]
    ELSE LET message == make_message(role, content, sources, t)
             after   == Append(convs[id].messages, message)
             kept    == IF Len(after) > max_history_length * 2
                        THEN PySliceLast(after, max_history_length * 2)
                        ELSE after
         IN  [ok |-> TRUE, convs |-> [convs EXCEPT ![id].messages = kept]]

\* len(content) of the content tokens the drivers use.
StrLen(c) ==
    CASE c = ""      -> 0
      [] c = "m"     -> 1
      [] c = "k192"  -> 192
      [] c = "k4000" -> 4000
      [] c = "k4001" -> 4001
      [] c = "k7808" -> 7808
      [] c = "k8000" -> 8000
      [] c = "k8001" -> 8001
      [] c = "SYSTEM_PROMPT" -> SystemPromptLen

RECURSIVE context_walk_skips(_, _, _)
context_walk_skips(h, i, total) ==
    IF i = 0 THEN <<>>
    ELSE LET message_length == StrLen(h[i].content)
         IN  IF total + message_length > max_context_length
             THEN context_walk_skips(h, i - 1, total)
             ELSE Append(context_walk_skips(h, i - 1, total + message_length),
                         [role |-> h[i].role, content |-> h[i].content])

\* The loop of build_context_messages over reversed(history): h[i] is the
\* message under the cursor, total the length taken so far; the walk breaks at
\* the first message that does not fit, and each taken message is inserted at
\* the front of context_messages.
RECURSIVE context_walk(_, _, _)
context_walk(h, i, total) ==
    IF i = 0 THEN <<>>
    ELSE LET message_length == StrLen(h[i].content)
         IN  IF total + message_length > max_context_length
             THEN <<>>
             ELSE Append(context_walk(h, i - 1, total + message_length),
                         [role |-> h[i].role, content |-> h[i].content])

\* build_context_messages
build_context_messages(convs, id, include_system) ==
    LET system == IF include_system
                  THEN << [role |-> "system", content |-> "SYSTEM_PROMPT"] >>
                  ELSE <<>>
    IN  IF id \notin DOMAIN convs
        THEN system
        ELSE LET history == convs[id].messages
             IN  system \o context_walk(history, Len(history), 0)

----------------------------------------------------------------------------
(* EnhancedQAAgent: candidates and the reranker *)

\* A retrieval hit as IndexingAgent.search builds it. distance is in
\* thousandths; meta tells which keys the stored metadata holds: "full" (all
\* of them), "no_pdf_url" (title, authors, categories only) or "none".
Paper(id, distance, meta) == [id |-> id, distance |-> distance, meta |-> meta]

Corpus ==
    << Paper("P1", 100, "full"), Paper("P2", 200, "full"),
       Paper("P3", 300, "full"), Paper("P4", 400, "full") >>

\* The same ranking with a hit whose metadata has no title.
CorpusNoTitle ==
    << Paper("P1", 100, "full"), Paper("P2", 200, "none"),
       Paper("P3", 300, "full"), Paper("P4", 400, "full") >>

\* int(x.strip()) on one comma-separated token of the model's reply: the
\* integer, or ValueError (ok = FALSE) for a token that is no integer literal.
ParseInt(token) ==
    CASE token = "0"  -> [ok |-> TRUE, value |-> 0]
      [] token = "1"  -> [ok |-> TRUE, value |-> 1]
      [] token = "2"  -> [ok |-> TRUE, value |-> 2]
      [] token = " 3" -> [ok |-> TRUE, value |-> 3]
      [] token = "4"  -> [ok |-> TRUE, value |-> 4]
      [] token = "5"  -> [ok |-> TRUE, value |-> 5]
      [] token = "x"  -> [ok |-> FALSE, value |-> 0]
      [] token = ""   -> [ok |-> FALSE, value |-> 0]

\* [candidates[i] for i in valid_indices], valid_indices being zero-based.
Pick(candidates, valid_indices) ==
    [k \in 1..Len(valid_indices) |-> candidates[valid_indices[k] + 1]]

rerank_skipped_strict(client, n, top_k) == ~client \/ n < top_k

\* The guard of rerank_results: no client, or no more than top_k candidates.
rerank_skipped(client, n, top_k) == ~client \/ n <= top_k

rerank_fallback_untruncated(candidates, top_k) == candidates

\* "return candidates[:top_k]": the original order, truncated.
rerank_fallback(candidates, top_k) == PySliceFirst(candidates, top_k)

to_index_one_based(value) == value

\* "int(x.strip()) - 1": the model numbers the papers from 1.
to_index(value) == value - 1

\* "0 <= i < len(candidates)"
valid_index(i, n) == 0 <= i /\ i < n

\* rerank_results. `llm` is what the chat completion does when it is called:
\* [kind |-> "error"] (the call raises), [kind |-> "none"] (a reply whose
\* content is None) or [kind |-> "text", tokens |-> result.split(',')].
\* The value is the returned list and whether the model was called.
rerank_results(client, candidates, top_k, llm) ==
    IF rerank_skipped(client, Len(candidates), top_k)
    THEN [value |-> PySliceFirst(candidates, top_k), llm_called |-> FALSE]
    ELSE IF \E i \in 1..Len(candidates) : candidates[i].meta = "none"
    THEN \* building the prompt raises KeyError: the outer except
         [value |-> PySliceFirst(candidates, top_k), llm_called |-> FALSE]
    ELSE IF llm.kind # "text"
    THEN \* the call, or content.strip(), raises: the outer except
         [value |-> PySliceFirst(candidates, top_k), llm_called |-> TRUE]
    ELSE IF \E k \in 1..Len(llm.tokens) : ~ParseInt(llm.tokens[k]).ok
    THEN \* ValueError inside the inner try: pass, then the original order
         [value |-> rerank_fallback(candidates, top_k), llm_called |-> TRUE]
    ELSE LET indices == [k \in 1..Len(llm.tokens) |->
                            to_index(ParseInt(llm.tokens[k]).value)]
             valid_indices == SelectSeq(indices,
                                  LAMBDA i : valid_index(i, Len(candidates)))
         IN  IF valid_indices # <<>>
             THEN [value |-> PySliceFirst(Pick(candidates, valid_indices), top_k),
                   llm_called |-> TRUE]
             ELSE [value |-> rerank_fallback(candidates, top_k), llm_called |-> TRUE]

----------------------------------------------------------------------------
(* EnhancedQAAgent: query rewriting, retrieval, context and sources *)

NoId == ""               \* conversation_id None (or empty): falsy
Absent == "<absent>"     \* a key the returned dict does not hold
None == "<None>"

Apology == "APOLOGY"     \* the fixed "no relevant papers" answer
UnavailableLLM == "LLM_UNAVAILABLE"
UnavailableIndex == "INDEX_UNAVAILABLE"

\* f'... {str(e)}': the error answer of exception e.
ErrorAnswer(e) == "ERROR: " \o e

\* content.strip() of the replies the model gives to a rewrite request.
Strip(text) ==
    CASE text = "rq"   -> "rq"
      [] text = " rq " -> "rq"
      [] text = "q1"   -> "q1"

rewrite_query_unguarded(client, original_query, llm) ==
    IF ~client THEN original_query
    ELSE IF llm.kind = "text" THEN Strip(llm.text)
    ELSE None

\* rewrite_query: the original query without a client, or when the call or
\* the access to its content raises; else the stripped reply.
rewrite_query(client, original_query, llm) ==
    IF ~client THEN original_query
    ELSE IF llm.kind # "text" THEN original_query
    ELSE Strip(llm.text)

\* The ranking with a hit whose metadata has no pdf_url.
CorpusNoUrl ==
    << Paper("P1", 100, "no_pdf_url"), Paper("P2", 200, "full"),
       Paper("P3", 300, "full"), Paper("P4", 400, "full") >>

\* IndexingAgent.search(query, top_k) on an index holding `hits`: at most
\* top_k of them in the index's order (fewer when a filter or the collection
\* size cuts the list); the empty list when the query raises.
SearchResults(hits, k) ==
    {SubSeq(hits, 1, n) : n \in 0..Min(k, Len(hits))}

\* _build_context reads title, authors and categories of every paper:
\* KeyError when a paper's metadata lacks them.
build_context_raises(papers) ==
    \E i \in 1..Len(papers) : papers[i].meta = "none"

\* _format_sources also reads pdf_url and published.
format_sources_raises(papers) ==
    \E i \in 1..Len(papers) : papers[i].meta # "full"

\* 'distance': None, set by search when the index returns no distances.
NoDistance == -1

\* _format_sources: per paper its id (title, authors, link and date go with
\* the id) and the relevance: f"{(1 - distance) * 100:.1f}%", here in tenths
\* of a percent, when paper.get('distance') is truthy, else 'N/A' (na).
format_sources(papers) ==
    [i \in 1..Len(papers) |->
        [id |-> papers[i].id,
         relevance |-> IF papers[i].distance # NoDistance /\ papers[i].distance # 0
                       THEN [na |-> FALSE, tenths |-> 1000 - papers[i].distance]
                       ELSE [na |-> TRUE, tenths |-> 0]]]

----------------------------------------------------------------------------
(* Driver of the trimming claim: a caller that creates one conversation and *)
(* appends to it. Most messages are user messages; at most MaxOtherMessages *)
(* of a run have another role.                                              *)

\* The scheduler before start(), with no task registered.
SchedulerUnused ==
    [running |-> FALSE, joining |-> FALSE, starts |-> 0, clock |-> 0,
     tasks |-> << >>, loops |-> << >>, workers |-> << >>]

\* The agent takes no part in a run, and the scheduler is not started.
AgentUnused ==
    /\ client_ok = FALSE
    /\ index_ok = FALSE
    /\ corpus = << >>
    /\ calls = << >>
    /\ sched = SchedulerUnused

OtherMessages(s) == Cardinality({i \in 1..Len(s) : s[i].role # "user"})

\* The history variable after an append that returned `ok`.
Logged(log, id, ok, message) ==
    IF ok THEN [log EXCEPT ![id] = Append(@, message)] ELSE log

StoreInit ==
    /\ conversations = << >>
    /\ now = 0
    /\ issued = {}
    /\ appended = << >>
    /\ ret = [op |-> "none"]
    /\ rr = [phase |-> "unused"]
    /\ AgentUnused

\* create_conversation, called with the store holding fewer than maxConvs.
Create(maxConvs) ==
    /\ Cardinality(DOMAIN conversations) < maxConvs
    /\ \E id \in ConvIds \ issued :
        /\ conversations' = create_conversation(conversations, id, now)
        /\ issued' = issued \cup {id}
        /\ appended' = [i \in DOMAIN appended \cup {id} |->
                          IF i = id THEN <<>> ELSE appended[i]]
        /\ ret' = [op |-> "create_conversation", id |-> id]
    /\ now' = now + 1
    /\ UNCHANGED <<rr, agentVars>>

\* add_message(id, role, content, sources)
AddMessage(id, role, content, sources) ==
    LET r == add_message(conversations, id, role, content, sources, now)
    IN  /\ conversations' = r.convs
        /\ appended' = Logged(appended, id, r.ok,
                              make_message(role, content, sources, now))
        /\ ret' = [op |-> "add_message", id |-> id, value |-> r.ok]
        /\ now' = IF r.ok THEN now + 1 ELSE now
        /\ UNCHANGED <<issued, rr, agentVars>>

TrimCreate == Create(1)

TrimAppend ==
    \E id \in DOMAIN conversations, role \in Roles, sources \in {<<>>, <<"P1">>} :
        /\ Len(appended[id]) < MaxTrimAppends
        /\ role # "user" => OtherMessages(appended[id]) < MaxOtherMessages
        /\ role # "assistant" => sources = <<>>
        /\ AddMessage(id, role, "m", sources)

TrimNext == TrimCreate \/ TrimAppend

SpecTrim == StoreInit /\ [][TrimNext]_vars

\* C1: after every append the history holds at most 2 * max_history_length
\* messages and equals the most recent min(n, 2 * max_history_length) of the
\* n messages appended to the conversation, in append order.
HistoryIsRecentSuffix ==
    \A id \in DOMAIN conversations :
        LET h == conversations[id].messages
            a == appended[id]
            n == Min(Len(a), 2 * max_history_length)
        IN  /\ Len(h) <= 2 * max_history_length
            /\ h = SubSeq(a, Len(a) - n + 1, Len(a))

\* C1 witness: 22 messages were appended, the last by an append that
\* succeeded, and the history holds 20 of them.
TrimHappened ==
    \E id \in DOMAIN conversations :
        /\ ret = [op |-> "add_message", id |-> id, value |-> TRUE]
        /\ Len(appended[id]) = 2 * max_history_length + 2
        /\ Len(conversations[id].messages) = 2 * max_history_length
        /\ OtherMessages(conversations[id].messages) > 0

----------------------------------------------------------------------------
(* Driver of the store: callers that create conversations, append messages  *)
(* of several lengths and build context windows, for known and unknown ids. *)

StoreContents == {"m", "k4000", "k4001", "k8001"}

RECURSIVE TotalAppended(_)
TotalAppended(ids) ==
    IF ids = {} THEN 0
    ELSE LET i == CHOOSE x \in ids : TRUE
         IN  Len(appended[i]) + TotalAppended(ids \ {i})

StoreCreate == Create(MaxStoreConversations)

StoreAppend ==
    \E id \in ConvIds, role \in {"user", "assistant"}, content \in StoreContents :
        /\ TotalAppended(DOMAIN appended) < MaxStoreMessages
        /\ AddMessage(id, role, content, <<>>)

StoreBuildContext ==
    \E id \in ConvIds, include_system \in BOOLEAN :
        /\ ret' = [op |-> "build_context_messages", id |-> id,
                   include_system |-> include_system,
                   value |-> build_context_messages(conversations, id, include_system)]
        /\ UNCHANGED <<storeVars, rr, agentVars>>

StoreNext == StoreCreate \/ StoreAppend \/ StoreBuildContext

SpecStore == StoreInit /\ [][StoreNext]_vars

RECURSIVE TotalLen(_)
TotalLen(msgs) ==
    IF msgs = <<>> THEN 0 ELSE StrLen(Head(msgs).content) + TotalLen(Tail(msgs))

\* C10 as claimed: whatever build_context_messages returns, with or without
\* the system prompt, has a cumulative content length of at most
\* max_context_length.
ContextWithinBudget ==
    ret.op = "build_context_messages" => TotalLen(ret.value) <= max_context_length

\* The history part of the window alone (the system prompt left out) stays
\* within max_context_length.
ContextHistoryWithinBudget ==
    ret.op = "build_context_messages" =>
        TotalLen(SelectSeq(ret.value, LAMBDA m : m.role # "system" \/ m.content # "SYSTEM_PROMPT"))
            <= max_context_length

\* The role and content of every message of a history, as the window gives
\* them.
WindowForm(messages) ==
    [i \in 1..Len(messages) |->
        [role |-> messages[i].role, content |-> messages[i].content]]

\* The last k messages of a history.
LastOf(messages, k) == SubSeq(messages, Len(messages) - k + 1, Len(messages))

\* The number of newest messages that fit the budget one after the other:
\* the largest k whose last k messages total at most max_context_length.
FittingSuffix(messages) ==
    CHOOSE k \in 0..Len(messages) :
        /\ TotalLen(LastOf(messages, k)) <= max_context_length
        /\ k < Len(messages) =>
              TotalLen(LastOf(messages, k + 1)) > max_context_length

\* C11: for a stored conversation the window is the system prompt, iff
\* include_system, followed by the newest messages of the history, whole and
\* oldest first, up to the first one (walking backwards) that does not fit
\* the budget; nothing older than that one is included.
ContextIsRecentSuffix ==
    (ret.op = "build_context_messages" /\ ret.id \in DOMAIN conversations) =>
        LET history == conversations[ret.id].messages
            system  == IF ret.include_system
                       THEN << [role |-> "system", content |-> "SYSTEM_PROMPT"] >>
                       ELSE <<>>
        IN  ret.value =
                system \o WindowForm(LastOf(history, FittingSuffix(history)))

\* C11 witness: the newest message alone overflows the budget, the older one
\* would fit, and the window holds neither.
ContextStoppedAtOverflow ==
    /\ ret.op = "build_context_messages"
    /\ ret.id \in DOMAIN conversations
    /\ ~ret.include_system
    /\ Len(conversations[ret.id].messages) = 2
    /\ conversations[ret.id].messages[1].content = "m"
    /\ conversations[ret.id].messages[2].content = "k8001"
    /\ ret.value = <<>>

----------------------------------------------------------------------------
(* Driver of the reranker: one call of rerank_results for each choice of   *)
(* client, candidate list, top_k and model reply.                          *)

Tokens == {"0", "1", "2", " 3", "4", "5", "x", ""}

Replies ==
    {[kind |-> "error"], [kind |-> "none"]} \cup
    {[kind |-> "text", tokens |-> t] :
        t \in UNION {[1..n -> Tokens] : n \in 1..MaxTokens}}

CandidateLists ==
    {SubSeq(Corpus, 1, n) : n \in 0..Len(Corpus)} \cup
    {SubSeq(CorpusNoTitle, 1, n) : n \in 2..Len(CorpusNoTitle)}

RerankInit ==
    /\ conversations = << >>
    /\ now = 0
    /\ issued = {}
    /\ appended = << >>
    /\ ret = [op |-> "none"]
    /\ AgentUnused
    /\ \E client \in BOOLEAN, candidates \in CandidateLists, top_k \in 0..3,
          llm \in Replies :
        rr = [phase |-> "called", client |-> client, candidates |-> candidates,
              top_k |-> top_k, llm |-> llm]

RerankReturn ==
    /\ rr.phase = "called"
    /\ rr' = [phase |-> "returned", client |-> rr.client,
              candidates |-> rr.candidates, top_k |-> rr.top_k, llm |-> rr.llm,
              out |-> rerank_results(rr.client, rr.candidates, rr.top_k, rr.llm)]
    /\ UNCHANGED <<storeVars, ret, agentVars>>

RerankNext == RerankReturn

SpecRerank == RerankInit /\ [][RerankNext]_vars

\* A token that names one of the n candidates: an integer literal in 1..n.
NamesCandidate(token, n) ==
    ParseInt(token).ok /\ ParseInt(token).value \in 1..n

\* The call reached the model, which had more than top_k well-formed
\* candidates to order.
RerankAsked ==
    /\ rr.phase = "returned"
    /\ rr.client
    /\ Len(rr.candidates) > rr.top_k
    /\ \A i \in 1..Len(rr.candidates) : rr.candidates[i].meta # "none"

\* The candidates the reply names, in the reply's order, cut to top_k.
NamedCandidates ==
    LET named == SelectSeq(rr.llm.tokens,
                     LAMBDA t : NamesCandidate(t, Len(rr.candidates)))
    IN  PySliceFirst([k \in 1..Len(named) |->
                         rr.candidates[ParseInt(named[k]).value]], rr.top_k)

\* C6: with more than top_k candidates, a model call that fails, or a reply
\* none of whose tokens names a candidate, gives the first top_k candidates
\* in retrieval order.
RerankFallsBack ==
    (/\ RerankAsked
     /\ \/ rr.llm.kind # "text"
        \/ \A k \in 1..Len(rr.llm.tokens) :
              ~NamesCandidate(rr.llm.tokens[k], Len(rr.candidates)))
    => rr.out.value = SubSeq(rr.candidates, 1, rr.top_k)

\* C6 witness: a reply of out-of-range numbers only fell back.
RerankFellBackOnOutOfRange ==
    /\ RerankAsked
    /\ rr.llm.kind = "text"
    /\ rr.llm.tokens = <<"5", "0">>
    /\ rr.top_k = 2
    /\ Len(rr.out.value) = 2

\* C7 as claimed: whenever some token of the reply names a candidate, the
\* result is the named candidates in the reply's order, cut to top_k,
\* whatever other tokens the reply holds.
RerankUsesEveryValidIndex ==
    (/\ RerankAsked
     /\ rr.llm.kind = "text"
     /\ \E k \in 1..Len(rr.llm.tokens) :
           NamesCandidate(rr.llm.tokens[k], Len(rr.candidates)))
    => rr.out.value = NamedCandidates

\* C7 amended: the same when every token of the reply is an integer literal;
\* a reply with a token that is no integer gives the first top_k candidates
\* in retrieval order.
RerankUsesValidIndicesOfIntegerReply ==
    (/\ RerankAsked
     /\ rr.llm.kind = "text"
     /\ \E k \in 1..Len(rr.llm.tokens) :
           NamesCandidate(rr.llm.tokens[k], Len(rr.candidates)))
    => IF \A k \in 1..Len(rr.llm.tokens) : ParseInt(rr.llm.tokens[k]).ok
       THEN rr.out.value = NamedCandidates
       ELSE rr.out.value = SubSeq(rr.candidates, 1, rr.top_k)

\* C7 witness: an all-integer reply with an out-of-range number reordered
\* the candidates.
RerankReordered ==
    /\ RerankAsked
    /\ rr.llm.kind = "text"
    /\ rr.llm.tokens = <<" 3", "5", "1">>
    /\ rr.top_k = 2
    /\ rr.out.value = <<rr.candidates[3], rr.candidates[1]>>

\* C8: a list of at most top_k candidates comes back unchanged and the
\* model is not called.
RerankSkipsShortLists ==
    (rr.phase = "returned" /\ Len(rr.candidates) <= rr.top_k)
    => rr.out = [value |-> rr.candidates, llm_called |-> FALSE]

\* C8 witness: exactly top_k candidates, a client, and a reply that would
\* have reordered them.
RerankSkippedAtTopK ==
    /\ rr.phase = "returned"
    /\ rr.client
    /\ Len(rr.candidates) = 3 /\ rr.top_k = 3
    /\ rr.llm.kind = "text" /\ rr.llm.tokens = <<"2", "1">>
    /\ rr.out.value = rr.candidates

----------------------------------------------------------------------------
(* EnhancedQAAgent.answer, one action per step between two accesses to the  *)
(* store or to a remote service. calls[p] is the frame of caller p.         *)

Procs == {1, 2}
Questions == {"q1", "q2"}
StaleId == "stale"       \* an id a caller holds that the store never issued

IdleCall == [pc |-> "idle", kind |-> "none"]

RewriteReplies ==
    {[kind |-> "error"], [kind |-> "none"], [kind |-> "text", text |-> " rq "]}

RerankReplies ==
    {[kind |-> "error"],
     [kind |-> "text", tokens |-> <<"2", "1">>],
     [kind |-> "text", tokens |-> <<"x">>]}

GenerationReplies ==
    {[kind |-> "error"], [kind |-> "text", text |-> "a1"]}

\* The dict answer returns.
Result(answer, sources, conversation_id, error, rewritten_query) ==
    [answer |-> answer, sources |-> sources, conversation_id |-> conversation_id,
     error |-> error, rewritten_query |-> rewritten_query]

NoResult == Result(Absent, <<>>, Absent, Absent, Absent)

\* A caller enters answer (kind "answer") or answer_stream ("answer_stream").
Call(p, kind, question, conversation_id, top_k, enable_rewrite, enable_rerank) ==
    /\ calls[p].pc = "idle"
    /\ calls' = [calls EXCEPT ![p] =
          [pc |-> "start", kind |-> kind, question |-> question,
           arg_id |-> conversation_id, conversation_id |-> conversation_id,
           top_k |-> top_k, enable_rewrite |-> enable_rewrite,
           enable_rerank |-> enable_rerank,
           before |-> conversations,
           rewrite_llm |-> [kind |-> "unasked"],
           rerank_llm |-> [kind |-> "unasked"], search_query |-> Absent,
           search_top_k |-> 0,
           retrieval_query |-> Absent, retrieved |-> <<>>,
           relevant_papers |-> <<>>, answer |-> Absent, error |-> Absent,
           sources |-> <<>>, full_answer |-> "", chunks |-> 0,
           events |-> <<>>, cancelled |-> FALSE, result |-> NoResult]]
    /\ UNCHANGED <<storeVars, otherVars>>

\* The store after caller p's add_message(conversation_id, role, content,
\* sources); the caller ignores what add_message returns.
AgentAddMessage(p, role, content, sources) ==
    LET id == calls[p].conversation_id
        r  == add_message(conversations, id, role, content, sources, now)
    IN  /\ conversations' = r.convs
        /\ appended' = Logged(appended, id, r.ok,
                              make_message(role, content, sources, now))
        /\ now' = IF r.ok THEN now + 1 ELSE now
        /\ UNCHANGED issued

AnswerStart_unchecked(p) ==
    /\ calls[p].pc = "start" /\ calls[p].kind = "answer"
    /\ IF calls[p].conversation_id = NoId
       THEN \E id \in ConvIds \ issued :
               /\ conversations' = create_conversation(conversations, id, now)
               /\ issued' = issued \cup {id}
               /\ appended' = [i \in DOMAIN appended \cup {id} |->
                                 IF i = id THEN <<>> ELSE appended[i]]
               /\ now' = now + 1
               /\ calls' = [calls EXCEPT ![p].pc = "rewrite",
                                         ![p].conversation_id = id]
       ELSE /\ calls' = [calls EXCEPT ![p].pc = "rewrite"]
            /\ UNCHANGED storeVars
    /\ UNCHANGED otherVars

\* Lines 178-196: the availability checks, then a new conversation when no
\* id was given.
AnswerStart(p) ==
    /\ calls[p].pc = "start" /\ calls[p].kind = "answer"
    /\ IF ~client_ok
       THEN /\ calls' = [calls EXCEPT ![p].pc = "done",
                   ![p].result = Result(UnavailableLLM, <<>>, Absent,
                                        "LLM service unavailable", Absent)]
            /\ UNCHANGED storeVars
       ELSE IF ~index_ok
       THEN /\ calls' = [calls EXCEPT ![p].pc = "done",
                   ![p].result = Result(UnavailableIndex, <<>>, Absent,
                                        "Indexing service unavailable", Absent)]
            /\ UNCHANGED storeVars
       ELSE IF calls[p].conversation_id = NoId
       THEN \E id \in ConvIds \ issued :
               /\ conversations' = create_conversation(conversations, id, now)
               /\ issued' = issued \cup {id}
               /\ appended' = [i \in DOMAIN appended \cup {id} |->
                                 IF i = id THEN <<>> ELSE appended[i]]
               /\ now' = now + 1
               /\ calls' = [calls EXCEPT ![p].pc = "rewrite",
                                         ![p].conversation_id = id]
       ELSE /\ calls' = [calls EXCEPT ![p].pc = "rewrite"]
            /\ UNCHANGED storeVars
    /\ UNCHANGED otherVars

\* Lines 198-201: the search query is the question, rewritten if asked.
AnswerRewrite(p) ==
    /\ calls[p].pc = "rewrite" /\ calls[p].kind = "answer"
    /\ IF calls[p].enable_rewrite
       THEN \E llm \in RewriteReplies :
               calls' = [calls EXCEPT ![p].pc = "search",
                   ![p].rewrite_llm = llm,
                   ![p].search_query = rewrite_query(client_ok, calls[p].question, llm)]
       ELSE calls' = [calls EXCEPT ![p].pc = "search",
                   ![p].search_query = calls[p].question]
    /\ UNCHANGED <<storeVars, otherVars>>

\* Lines 203-207: retrieval of 2 * top_k candidates.
AnswerSearch(p) ==
    /\ calls[p].pc = "search" /\ calls[p].kind = "answer"
    /\ \E papers \in SearchResults(corpus, calls[p].top_k * 2) :
          calls' = [calls EXCEPT
              ![p].pc = IF papers = <<>> THEN "no_papers_user" ELSE "rerank",
              ![p].search_top_k = calls[p].top_k * 2,
              ![p].retrieval_query = calls[p].search_query,
              ![p].retrieved = papers,
              ![p].relevant_papers = papers]
    /\ UNCHANGED <<storeVars, otherVars>>

\* Line 211: no candidates, the question goes to the history.
AnswerNoPapersUser(p) ==
    /\ calls[p].pc = "no_papers_user"
    /\ AgentAddMessage(p, "user", calls[p].question, <<>>)
    /\ calls' = [calls EXCEPT ![p].pc = "no_papers_assistant"]
    /\ UNCHANGED otherVars

\* Lines 212-219: the apology goes to the history and is returned.
AnswerNoPapersAssistant(p) ==
    /\ calls[p].pc = "no_papers_assistant"
    /\ AgentAddMessage(p, "assistant", Apology, <<>>)
    /\ calls' = [calls EXCEPT ![p].pc = "done",
          ![p].answer = Apology,
          ![p].result = Result(Apology, <<>>, calls[p].conversation_id,
                               "No relevant papers found", Absent)]
    /\ UNCHANGED otherVars

AnswerRerank_keeps_all(p) ==
    /\ calls[p].pc = "rerank"
    /\ LET papers == calls[p].relevant_papers
           top_k  == calls[p].top_k
       IN  IF calls[p].enable_rerank /\ Len(papers) > top_k
           THEN \E llm \in RerankReplies :
                   calls' = [calls EXCEPT ![p].pc = "generate",
                       ![p].rerank_llm = llm,
                       ![p].relevant_papers =
                           rerank_results(client_ok, papers, top_k, llm).value]
           ELSE calls' = [calls EXCEPT ![p].pc = "generate"]
    /\ UNCHANGED <<storeVars, otherVars>>

\* Lines 221-225: rerank when asked and more than top_k were retrieved,
\* else the first top_k.
AnswerRerank(p) ==
    /\ calls[p].pc = "rerank"
    /\ LET papers == calls[p].relevant_papers
           top_k  == calls[p].top_k
       IN  IF calls[p].enable_rerank /\ Len(papers) > top_k
           THEN \E llm \in RerankReplies :
                   calls' = [calls EXCEPT ![p].pc = "generate",
                       ![p].rerank_llm = llm,
                       ![p].relevant_papers =
                           rerank_results(client_ok, papers, top_k, llm).value]
           ELSE calls' = [calls EXCEPT ![p].pc = "generate",
                       ![p].relevant_papers = PySliceFirst(papers, top_k)]
    /\ UNCHANGED <<storeVars, otherVars>>

\* Lines 227-256: the grounding context, the context window of the
\* conversation (read only) and the completion.
AnswerGenerate(p) ==
    /\ calls[p].pc = "generate" /\ calls[p].kind = "answer"
    /\ IF build_context_raises(calls[p].relevant_papers)
       THEN calls' = [calls EXCEPT ![p].pc = "except_user", ![p].error = "KeyError"]
       ELSE \E llm \in GenerationReplies :
               IF llm.kind = "text"
               THEN calls' = [calls EXCEPT ![p].pc = "persist_user",
                                           ![p].answer = llm.text]
               ELSE calls' = [calls EXCEPT ![p].pc = "except_user",
                                           ![p].error = "APIError"]
    /\ UNCHANGED <<storeVars, otherVars>>

\* Line 259: the question goes to the history.
AnswerPersistUser(p) ==
    /\ calls[p].pc = "persist_user"
    /\ AgentAddMessage(p, "user", calls[p].question, <<>>)
    /\ calls' = [calls EXCEPT ![p].pc = "persist_assistant"]
    /\ UNCHANGED otherVars

\* Lines 260-272: the sources are formatted, the answer goes to the history
\* with them, and the result is returned.
AnswerPersistAssistant(p) ==
    /\ calls[p].pc = "persist_assistant"
    /\ IF format_sources_raises(calls[p].relevant_papers)
       THEN /\ calls' = [calls EXCEPT ![p].pc = "except_user",
                                      ![p].error = "KeyError"]
            /\ UNCHANGED storeVars
       ELSE LET sources == format_sources(calls[p].relevant_papers)
            IN  /\ AgentAddMessage(p, "assistant", calls[p].answer, sources)
                /\ calls' = [calls EXCEPT ![p].pc = "done",
                      ![p].result = Result(calls[p].answer, sources,
                          calls[p].conversation_id, Absent,
                          IF calls[p].enable_rewrite
                          THEN calls[p].search_query ELSE None)]
    /\ UNCHANGED otherVars

\* Lines 274-280: the handler of any exception of the try block records the
\* question.
AnswerExceptUser(p) ==
    /\ calls[p].pc = "except_user"
    /\ IF calls[p].conversation_id # NoId
       THEN AgentAddMessage(p, "user", calls[p].question, <<>>)
       ELSE UNCHANGED storeVars
    /\ calls' = [calls EXCEPT ![p].pc = "except_assistant"]
    /\ UNCHANGED otherVars

\* Lines 281-288: then the error answer, which is returned.
AnswerExceptAssistant(p) ==
    /\ calls[p].pc = "except_assistant"
    /\ LET error_answer == ErrorAnswer(calls[p].error)
       IN  /\ IF calls[p].conversation_id # NoId
              THEN AgentAddMessage(p, "assistant", error_answer, <<>>)
              ELSE UNCHANGED storeVars
           /\ calls' = [calls EXCEPT ![p].pc = "done",
                 ![p].answer = error_answer,
                 ![p].result = Result(error_answer, <<>>, calls[p].conversation_id,
                                      calls[p].error, Absent)]
    /\ UNCHANGED otherVars

----------------------------------------------------------------------------
(* EnhancedQAAgent.answer_stream, a generator: its body runs while the      *)
(* consumer pulls the next event, and is suspended at every yield.          *)

Deltas == {"d1", "d2"}

Event(type, content) == [type |-> type, content |-> content]

\* "return" after the error event of an empty retrieval: the generator ends.
after_no_papers_falls_through == "sources"

after_no_papers == "done"

\* Lines 302-312: the availability check, then a new conversation when no id
\* was given.
StreamStart(p) ==
    /\ calls[p].pc = "start" /\ calls[p].kind = "answer_stream"
    /\ IF ~client_ok \/ ~index_ok
       THEN /\ calls' = [calls EXCEPT ![p].pc = "done",
                   ![p].events = Append(@, Event("error", "unavailable"))]
            /\ UNCHANGED storeVars
       ELSE IF calls[p].conversation_id = NoId
       THEN \E id \in ConvIds \ issued :
               /\ conversations' = create_conversation(conversations, id, now)
               /\ issued' = issued \cup {id}
               /\ appended' = [i \in DOMAIN appended \cup {id} |->
                                 IF i = id THEN <<>> ELSE appended[i]]
               /\ now' = now + 1
               /\ calls' = [calls EXCEPT ![p].pc = "rewrite",
                                         ![p].conversation_id = id]
       ELSE /\ calls' = [calls EXCEPT ![p].pc = "rewrite"]
            /\ UNCHANGED storeVars
    /\ UNCHANGED otherVars

\* Line 315: the question is always rewritten.
StreamRewrite(p) ==
    /\ calls[p].pc = "rewrite" /\ calls[p].kind = "answer_stream"
    /\ \E llm \in RewriteReplies :
          calls' = [calls EXCEPT ![p].pc = "search",
              ![p].rewrite_llm = llm,
              ![p].search_query = rewrite_query(client_ok, calls[p].question, llm)]
    /\ UNCHANGED <<storeVars, otherVars>>

\* Lines 317-325: retrieval of top_k candidates; an error event and the end
\* when there are none.
StreamSearch(p) ==
    /\ calls[p].pc = "search" /\ calls[p].kind = "answer_stream"
    /\ \E papers \in SearchResults(corpus, calls[p].top_k) :
          calls' = [calls EXCEPT
              ![p].pc = IF papers = <<>> THEN after_no_papers ELSE "sources",
              ![p].search_top_k = calls[p].top_k,
              ![p].events = IF papers = <<>>
                            THEN Append(@, Event("error", "no papers"))
                            ELSE @,
              ![p].retrieval_query = calls[p].search_query,
              ![p].retrieved = papers,
              ![p].relevant_papers = papers]
    /\ UNCHANGED <<storeVars, otherVars>>

\* Lines 327-333: the sources event; lines 373-377 when formatting raises.
StreamSources(p) ==
    /\ calls[p].pc = "sources"
    /\ IF format_sources_raises(calls[p].relevant_papers)
       THEN calls' = [calls EXCEPT ![p].pc = "done", ![p].error = "KeyError",
                   ![p].events = Append(@, Event("error", "KeyError"))]
       ELSE LET sources == format_sources(calls[p].relevant_papers)
            IN  calls' = [calls EXCEPT ![p].pc = "generate",
                   ![p].sources = sources,
                   ![p].events = Append(@, Event("sources", sources))]
    /\ UNCHANGED <<storeVars, otherVars>>

\* Lines 335-357: the grounding context, the context window (read only) and
\* the streaming completion request; lines 373-377 when one of them raises.
StreamGenerate(p) ==
    /\ calls[p].pc = "generate"
    /\ calls[p].kind = "answer_stream"
    /\ IF build_context_raises(calls[p].relevant_papers)
       THEN calls' = [calls EXCEPT ![p].pc = "done", ![p].error = "KeyError",
                   ![p].events = Append(@, Event("error", "KeyError"))]
       ELSE \E ok \in BOOLEAN :
               IF ok
               THEN calls' = [calls EXCEPT ![p].pc = "stream"]
               ELSE calls' = [calls EXCEPT ![p].pc = "done",
                       ![p].error = "APIError",
                       ![p].events = Append(@, Event("error", "APIError"))]
    /\ UNCHANGED <<storeVars, otherVars>>

StreamDelta_not_accumulated(p) ==
    /\ calls[p].pc = "stream"
    /\ calls[p].chunks < MaxChunks
    /\ \E content \in Deltas :
          calls' = [calls EXCEPT ![p].chunks = @ + 1,
              ![p].events = Append(@, Event("answer", content))]
    /\ UNCHANGED <<storeVars, otherVars>>

\* Lines 359-367, one turn of the loop over the model's stream: a chunk with
\* content is added to full_answer and yielded as an answer event.
StreamDelta(p) ==
    /\ calls[p].pc = "stream"
    /\ calls[p].chunks < MaxChunks
    /\ \E content \in Deltas :
          calls' = [calls EXCEPT ![p].chunks = @ + 1,
              ![p].full_answer = @ \o content,
              ![p].events = Append(@, Event("answer", content))]
    /\ UNCHANGED <<storeVars, otherVars>>

\* A chunk whose delta has no content is skipped.
StreamEmptyDelta(p) ==
    /\ calls[p].pc = "stream"
    /\ calls[p].chunks < MaxChunks
    /\ calls' = [calls EXCEPT ![p].chunks = @ + 1]
    /\ UNCHANGED <<storeVars, otherVars>>

StreamBreaks_persists_partial(p) ==
    /\ calls[p].pc = "stream"
    /\ AgentAddMessage(p, "assistant", calls[p].full_answer, calls[p].sources)
    /\ calls' = [calls EXCEPT ![p].pc = "done", ![p].error = "APIError",
                   ![p].events = Append(@, Event("error", "APIError"))]
    /\ UNCHANGED otherVars

\* The model's stream raises in the middle: lines 373-377.
StreamBreaks(p) ==
    /\ calls[p].pc = "stream"
    /\ calls' = [calls EXCEPT ![p].pc = "done", ![p].error = "APIError",
                   ![p].events = Append(@, Event("error", "APIError"))]
    /\ UNCHANGED <<storeVars, otherVars>>

\* The model's stream is exhausted: line 370, the question goes to the
\* history.
StreamPersistUser(p) ==
    /\ calls[p].pc = "stream"
    /\ AgentAddMessage(p, "user", calls[p].question, <<>>)
    /\ calls' = [calls EXCEPT ![p].pc = "stream_persist_assistant"]
    /\ UNCHANGED otherVars

\* Line 371: the full answer goes to the history with the sources.
StreamPersistAssistant(p) ==
    /\ calls[p].pc = "stream_persist_assistant"
    /\ AgentAddMessage(p, "assistant", calls[p].full_answer, calls[p].sources)
    /\ calls' = [calls EXCEPT ![p].pc = "done", ![p].answer = calls[p].full_answer]
    /\ UNCHANGED otherVars

\* The consumer stops pulling while the generator is suspended at the yield
\* of the sources event or of an answer event; the generator is closed there
\* (GeneratorExit is no Exception: the handler does not run).
StreamCancel(p) ==
    /\ calls[p].kind = "answer_stream"
    /\ \/ calls[p].pc = "generate"
       \/ /\ calls[p].pc = "stream"
          /\ calls[p].events[Len(calls[p].events)].type = "answer"
    /\ calls' = [calls EXCEPT ![p].pc = "done", ![p].cancelled = TRUE]
    /\ UNCHANGED <<storeVars, otherVars>>

StreamStep(p) ==
    \/ StreamStart(p)
    \/ StreamRewrite(p)
    \/ StreamSearch(p)
    \/ StreamSources(p)
    \/ StreamGenerate(p)
    \/ StreamDelta(p)
    \/ StreamEmptyDelta(p)
    \/ StreamBreaks(p)
    \/ StreamPersistUser(p)
    \/ StreamPersistAssistant(p)
    \/ StreamCancel(p)

AnswerStep(p) ==
    \/ AnswerStart(p)
    \/ AnswerRewrite(p)
    \/ AnswerSearch(p)
    \/ AnswerNoPapersUser(p)
    \/ AnswerNoPapersAssistant(p)
    \/ AnswerRerank(p)
    \/ AnswerGenerate(p)
    \/ AnswerPersistUser(p)
    \/ AnswerPersistAssistant(p)
    \/ AnswerExceptUser(p)
    \/ AnswerExceptAssistant(p)

----------------------------------------------------------------------------
(* Driver of the agent, one call: a caller calls answer or answer_stream,   *)
(* with any arguments, on an empty store or on a store that holds one       *)
(* conversation with an earlier exchange.                                   *)

EmptyStore == << >>

\* The store after create_conversation and one question and answer.
SeededStore ==
    LET created == create_conversation(EmptyStore, "c1", 0)
        asked   == add_message(created, "c1", "user", "q0", <<>>, 1).convs
    IN  add_message(asked, "c1", "assistant", "a0",
                    format_sources(SubSeq(Corpus, 1, 1)), 2).convs

AgentInit(stores, indexes) ==
    /\ conversations \in stores
    /\ corpus \in indexes
    /\ now = IF conversations = EmptyStore THEN 0 ELSE 3
    /\ issued = DOMAIN conversations
    /\ appended = [id \in DOMAIN conversations |-> conversations[id].messages]
    /\ ret = [op |-> "none"]
    /\ rr = [phase |-> "unused"]
    /\ client_ok \in BOOLEAN
    /\ index_ok \in BOOLEAN
    /\ calls = [p \in Procs |-> IdleCall]
    /\ sched = SchedulerUnused

SerialInit == AgentInit({EmptyStore, SeededStore}, {Corpus, CorpusNoTitle, CorpusNoUrl})

MainCaller == CHOOSE p \in Procs : \A q \in Procs : p <= q

\* answer_stream has no enable_rewrite and enable_rerank parameters: it
\* always rewrites and never reranks.
SerialCall ==
    \E kind \in {"answer", "answer_stream"}, question \in Questions,
       conversation_id \in {NoId, StaleId} \cup DOMAIN conversations,
       top_k \in 1..2, enable_rewrite \in BOOLEAN, enable_rerank \in BOOLEAN :
        /\ kind = "answer_stream" => enable_rewrite /\ ~enable_rerank
        /\ Call(MainCaller, kind, question, conversation_id, top_k,
                enable_rewrite, enable_rerank)

SerialNext ==
    \/ SerialCall
    \/ AnswerStep(MainCaller)
    \/ StreamStep(MainCaller)

SpecSerial == SerialInit /\ [][SerialNext]_vars

\* The caller's call is an answer call that has returned.
AnswerReturned(p) == calls[p].kind = "answer" /\ calls[p].pc = "done"

\* Roles and contents of a history, oldest first.
Transcript(messages) ==
    [i \in 1..Len(messages) |->
        [role |-> messages[i].role, content |-> messages[i].content]]

\* The history the call's conversation had when the call was made.
HistoryBefore(p) ==
    IF calls[p].arg_id \in DOMAIN calls[p].before
    THEN calls[p].before[calls[p].arg_id].messages
    ELSE <<>>

\* The types of the events a call of answer_stream has yielded so far.
EventTypes(p) ==
    [i \in 1..Len(calls[p].events) |-> calls[p].events[i].type]

\* C3 as claimed: the events of a stream are one sources event followed by
\* answer events only, or one error event alone, and a stream that ran to its
\* end has yielded at least one event.
StreamEventsAsClaimed ==
    \A p \in Procs : calls[p].kind = "answer_stream" =>
        LET t == EventTypes(p)
        IN  /\ \/ t = <<>>
               \/ t = <<"error">>
               \/ /\ t[1] = "sources"
                  /\ \A i \in 2..Len(t) : t[i] = "answer"
            /\ (calls[p].pc = "done" /\ ~calls[p].cancelled) => t # <<>>

\* C3 amended: one error event alone, or one sources event, then answer
\* events, then possibly one last error event; nothing follows an error event.
StreamEventsInOrder ==
    \A p \in Procs : calls[p].kind = "answer_stream" =>
        LET t == EventTypes(p)
        IN  /\ \/ t = <<>>
               \/ t = <<"error">>
               \/ /\ t[1] = "sources"
                  /\ \A i \in 2..(Len(t) - 1) : t[i] = "answer"
                  /\ Len(t) >= 2 => t[Len(t)] \in {"answer", "error"}
            /\ (calls[p].pc = "done" /\ ~calls[p].cancelled) => t # <<>>

\* C3 witness: the model's stream broke after an answer event.
StreamErrorAfterAnswer ==
    \E p \in Procs :
        /\ calls[p].kind = "answer_stream" /\ calls[p].pc = "done"
        /\ EventTypes(p) = <<"sources", "answer", "error">>

\* C4 as claimed: an answer call in which a step raised returns an error
\* answer, no sources, the conversation id and an error, and the history of
\* that conversation ends with the question and the error answer.
AnswerFailureIsPersisted ==
    \A p \in Procs : (AnswerReturned(p) /\ calls[p].error # Absent) =>
        /\ calls[p].result.answer \in {ErrorAnswer("APIError"), ErrorAnswer("KeyError")}
        /\ calls[p].result.sources = <<>>
        /\ calls[p].result.conversation_id = calls[p].conversation_id
        /\ calls[p].result.conversation_id \notin {Absent, NoId}
        /\ calls[p].result.error # Absent
        /\ calls[p].conversation_id \in DOMAIN conversations
        /\ LET h == Transcript(conversations[calls[p].conversation_id].messages)
           IN  /\ Len(h) >= 2
               /\ h[Len(h) - 1] = [role |-> "user", content |-> calls[p].question]
               /\ h[Len(h)] = [role |-> "assistant", content |-> calls[p].result.answer]

\* The same for a call that was given no id or the id of a stored
\* conversation.
AnswerFailureIsPersistedInStoredConversation ==
    \A p \in Procs :
        (/\ AnswerReturned(p) /\ calls[p].error # Absent
         /\ calls[p].arg_id \in {NoId} \cup DOMAIN calls[p].before) =>
        /\ calls[p].result.answer \in {ErrorAnswer("APIError"), ErrorAnswer("KeyError")}
        /\ calls[p].result.sources = <<>>
        /\ calls[p].result.conversation_id = calls[p].conversation_id
        /\ calls[p].result.error # Absent
        /\ calls[p].conversation_id \in DOMAIN conversations
        /\ LET h == Transcript(conversations[calls[p].conversation_id].messages)
           IN  /\ Len(h) >= 2
               /\ h[Len(h) - 1] = [role |-> "user", content |-> calls[p].question]
               /\ h[Len(h)] = [role |-> "assistant", content |-> calls[p].result.answer]

\* The two messages an answer call with no candidates adds.
ApologyExchange(p) ==
    << [role |-> "user", content |-> calls[p].question],
       [role |-> "assistant", content |-> Apology] >>

\* C5 as claimed: an answer call whose retrieval gave no candidates returns
\* the apology, no sources, the conversation id and an error, and its
\* conversation has gained the question and the apology, and nothing else.
NoPapersIsAnswered ==
    \A p \in Procs :
        (AnswerReturned(p) /\ calls[p].retrieval_query # Absent
                           /\ calls[p].retrieved = <<>>) =>
        /\ calls[p].result.answer = Apology
        /\ calls[p].result.sources = <<>>
        /\ calls[p].result.conversation_id = calls[p].conversation_id
        /\ calls[p].result.error # Absent
        /\ calls[p].conversation_id \in DOMAIN conversations
        /\ Transcript(conversations[calls[p].conversation_id].messages)
              = Transcript(HistoryBefore(p)) \o ApologyExchange(p)
        /\ calls[p].arg_id = NoId =>
              Len(conversations[calls[p].conversation_id].messages) = 2

\* The same for a call that was given no id or the id of a stored
\* conversation.
NoPapersIsAnsweredInStoredConversation ==
    \A p \in Procs :
        (/\ AnswerReturned(p) /\ calls[p].retrieval_query # Absent
         /\ calls[p].retrieved = <<>>
         /\ calls[p].arg_id \in {NoId} \cup DOMAIN calls[p].before) =>
        /\ calls[p].result.answer = Apology
        /\ calls[p].result.sources = <<>>
        /\ calls[p].result.conversation_id = calls[p].conversation_id
        /\ calls[p].result.error # Absent
        /\ calls[p].conversation_id \in DOMAIN conversations
        /\ Transcript(conversations[calls[p].conversation_id].messages)
              = Transcript(HistoryBefore(p)) \o ApologyExchange(p)
        /\ calls[p].arg_id = NoId =>
              Len(conversations[calls[p].conversation_id].messages) = 2

\* C9: rewrite_query returns the original question when there is no client,
\* and a call of answer or answer_stream whose rewrite request failed, or was
\* answered without content, searches with the question itself.
RewriteFailureKeepsQuestion ==
    /\ \A q \in Questions, llm \in RewriteReplies :
          rewrite_query(FALSE, q, llm) = q
    /\ \A p \in Procs :
          (calls[p].kind \in {"answer", "answer_stream"}
              /\ calls[p].rewrite_llm.kind \in {"error", "none"}) =>
          /\ calls[p].search_query = calls[p].question
          /\ calls[p].retrieval_query \in {Absent, calls[p].question}

\* C9 witness: a stream whose rewrite request failed has searched.
SearchedAfterRewriteFailure ==
    \E p \in Procs :
        /\ calls[p].kind = "answer_stream"
        /\ calls[p].rewrite_llm.kind = "error"
        /\ calls[p].retrieval_query = calls[p].question
        /\ calls[p].retrieved # <<>>

\* The call of p is an answer_stream call that is over.
StreamOver(p) == calls[p].kind = "answer_stream" /\ calls[p].pc = "done"

\* Every message of the store is one the store held when p made its call.
NothingPersisted(p) ==
    \A id \in DOMAIN conversations :
        conversations[id].messages =
            IF id \in DOMAIN calls[p].before
            THEN calls[p].before[id].messages
            ELSE <<>>

\* Some event of the stream of p is an answer event.
SomeAnswerEvent(p) ==
    \E i \in 1..Len(calls[p].events) : calls[p].events[i].type = "answer"

\* C16: a stream whose consumer stopped pulling, or whose generation raised
\* after answer events, has appended no message: every history is as it was
\* when the call was made.
StreamPersistsOnCompletionOnly ==
    \A p \in Procs :
        (/\ StreamOver(p)
         /\ \/ calls[p].cancelled
            \/ calls[p].error # Absent /\ SomeAnswerEvent(p))
        => NothingPersisted(p)

\* C16 witness: the consumer of a stream on a stored conversation stopped
\* after an answer event.
StreamCancelledAfterAnswer ==
    \E p \in Procs :
        /\ StreamOver(p)
        /\ calls[p].cancelled
        /\ SomeAnswerEvent(p)
        /\ calls[p].arg_id \in DOMAIN conversations
        /\ conversations[calls[p].arg_id].messages # <<>>

\* Role, content and sources of the messages of a history.
Stored(messages) ==
    [i \in 1..Len(messages) |->
        [role |-> messages[i].role, content |-> messages[i].content,
         sources |-> messages[i].sources]]

\* The contents of the answer events of a stream, concatenated in order.
RECURSIVE ConcatAnswers(_)
ConcatAnswers(events) ==
    IF events = <<>> THEN ""
    ELSE IF Head(events).type = "answer"
         THEN Head(events).content \o ConcatAnswers(Tail(events))
         ELSE ConcatAnswers(Tail(events))

\* The stream of p was consumed to its end: it is over, the consumer did not
\* stop, and its last event is no error event.
StreamCompleted(p) ==
    /\ StreamOver(p)
    /\ ~calls[p].cancelled
    /\ calls[p].events # <<>>
    /\ calls[p].events[Len(calls[p].events)].type # "error"

\* C17: a stream consumed to its end on a stored conversation adds two
\* messages to its history: the question, then an assistant message whose
\* content is the concatenation of the answer events and whose sources are
\* the content of the sources event.
StreamPersistsWhatItEmitted ==
    \A p \in Procs :
        (StreamCompleted(p) /\ calls[p].arg_id \in DOMAIN calls[p].before) =>
            /\ calls[p].events[1].type = "sources"
            /\ Stored(conversations[calls[p].arg_id].messages) =
                  Stored(HistoryBefore(p)) \o
                  << [role |-> "user", content |-> calls[p].question,
                      sources |-> <<>>],
                     [role |-> "assistant",
                      content |-> ConcatAnswers(calls[p].events),
                      sources |-> calls[p].events[1].content] >>

\* C17 witness: a completed stream of two answer events on a stored
\* conversation.
StreamCompletedWithTwoDeltas ==
    \E p \in Procs :
        /\ StreamCompleted(p)
        /\ calls[p].arg_id \in DOMAIN calls[p].before
        /\ Len(calls[p].events) = 3
        /\ ConcatAnswers(calls[p].events) = "d1d2"

\* C18 as claimed: a stream that found the model or the index unavailable,
\* or retrieved no candidates, has yielded one error event and nothing else
\* and has left the store as it was, conversations included.
StreamFailureLeavesStore ==
    \A p \in Procs :
        (/\ StreamOver(p)
         /\ \/ ~client_ok
            \/ ~index_ok
            \/ calls[p].retrieval_query # Absent /\ calls[p].retrieved = <<>>)
        => /\ EventTypes(p) = <<"error">>
           /\ conversations = calls[p].before

\* The same for a call that was given a conversation id.
StreamFailureLeavesStoreGivenId ==
    \A p \in Procs :
        (/\ StreamOver(p)
         /\ calls[p].arg_id # NoId
         /\ \/ ~client_ok
            \/ ~index_ok
            \/ calls[p].retrieval_query # Absent /\ calls[p].retrieved = <<>>)
        => /\ EventTypes(p) = <<"error">>
           /\ conversations = calls[p].before

\* The candidates a reply of integers names, in the reply's order, cut to
\* top_k; the first top_k candidates when the reranker failed: its prompt
\* could not be built from the candidates' metadata, the call raised, or the
\* reply holds a token that names no candidate.
InReplyOrder(llm, candidates, top_k) ==
    IF /\ llm.kind = "text"
       /\ \A i \in 1..Len(candidates) : candidates[i].meta # "none"
       /\ \A k \in 1..Len(llm.tokens) :
             NamesCandidate(llm.tokens[k], Len(candidates))
    THEN PySliceFirst([k \in 1..Len(llm.tokens) |->
                          candidates[ParseInt(llm.tokens[k]).value]], top_k)
    ELSE PySliceFirst(candidates, top_k)

\* The answer call of p returned an answer without an error.
AnswerSucceeded(p) ==
    /\ AnswerReturned(p)
    /\ calls[p].result.error = Absent
    /\ calls[p].result.conversation_id # Absent

\* What C19 says of the successful call of p, the persistence left out: the
\* sources are the formatted final candidates, at most top_k, in the reply's
\* order when the reranker was asked and in retrieval order otherwise.
SourcesAreFinalCandidates(p) ==
    LET final == IF calls[p].rerank_llm.kind # "unasked"
                 THEN InReplyOrder(calls[p].rerank_llm, calls[p].retrieved,
                                   calls[p].top_k)
                 ELSE PySliceFirst(calls[p].retrieved, calls[p].top_k)
    IN  /\ calls[p].rerank_llm.kind # "unasked" <=>
              (calls[p].enable_rerank
                  /\ Len(calls[p].retrieved) > calls[p].top_k)
        /\ Len(calls[p].result.sources) <= calls[p].top_k
        /\ calls[p].result.sources = format_sources(final)

\* The conversation of the call of p has gained the question and the answer
\* with the returned sources.
AnswerIsPersisted(p) ==
    /\ calls[p].conversation_id \in DOMAIN conversations
    /\ Stored(conversations[calls[p].conversation_id].messages) =
          Stored(HistoryBefore(p)) \o
          << [role |-> "user", content |-> calls[p].question,
              sources |-> <<>>],
             [role |-> "assistant", content |-> calls[p].result.answer,
              sources |-> calls[p].result.sources] >>

\* C19 as claimed: a successful answer returns the formatted final
\* candidates, and its conversation has gained the question followed by the
\* answer with those sources.
AnswerSourcesArePersisted ==
    \A p \in Procs :
        AnswerSucceeded(p) => (SourcesAreFinalCandidates(p) /\ AnswerIsPersisted(p))

\* The same for a call that was given no id or the id of a stored
\* conversation.
AnswerSourcesArePersistedInStoredConversation ==
    \A p \in Procs :
        (AnswerSucceeded(p)
            /\ calls[p].arg_id \in {NoId} \cup DOMAIN calls[p].before)
        => (SourcesAreFinalCandidates(p) /\ AnswerIsPersisted(p))

\* The answer call of p has retrieved and, when it found candidates, is past
\* its rerank step.
PastRerank(p) ==
    /\ calls[p].kind = "answer"
    /\ calls[p].retrieval_query # Absent
    /\ calls[p].pc # "rerank"

\* C21: answer asks the index for 2 * top_k candidates; rerank_results is
\* called iff enable_rerank holds and more than top_k candidates came back,
\* else the final candidates are the first top_k retrieved; the final list
\* never has more than top_k elements.
AnswerOverFetchesAndCuts ==
    \A p \in Procs : PastRerank(p) =>
        /\ calls[p].search_top_k = 2 * calls[p].top_k
        /\ Len(calls[p].retrieved) <= 2 * calls[p].top_k
        /\ calls[p].rerank_llm.kind # "unasked" <=>
              (calls[p].enable_rerank
                  /\ Len(calls[p].retrieved) > calls[p].top_k)
        /\ calls[p].rerank_llm.kind = "unasked" =>
              calls[p].relevant_papers =
                  PySliceFirst(calls[p].retrieved, calls[p].top_k)
        /\ Len(calls[p].relevant_papers) <= calls[p].top_k

\* C21 witness: 4 candidates for top_k = 2 were cut to the first 2 without
\* the reranker.
AnswerCutWithoutRerank ==
    \E p \in Procs :
        /\ PastRerank(p)
        /\ ~calls[p].enable_rerank
        /\ calls[p].top_k = 2
        /\ Len(calls[p].retrieved) = 4
        /\ calls[p].relevant_papers = SubSeq(calls[p].retrieved, 1, 2)

\* C23: an answer call that finds the model or the index unavailable
\* returns the fixed message of that service with no sources and an error,
\* has asked for no rewrite, retrieval, rerank or generation, and has left
\* the store as it was.
UnavailableAnswerDoesNothing ==
    \A p \in Procs :
        (AnswerReturned(p) /\ (~client_ok \/ ~index_ok)) =>
            /\ calls[p].result.answer =
                  IF ~client_ok THEN UnavailableLLM ELSE UnavailableIndex
            /\ calls[p].result.sources = <<>>
            /\ calls[p].result.error # Absent
            /\ calls[p].rewrite_llm.kind = "unasked"
            /\ calls[p].retrieval_query = Absent
            /\ calls[p].rerank_llm.kind = "unasked"
            /\ calls[p].answer = Absent
            /\ conversations = calls[p].before

\* C23 witness: an answer call without a conversation id, with rewriting
\* enabled, found the index unavailable.
AnswerFoundIndexUnavailable ==
    \E p \in Procs :
        /\ AnswerReturned(p)
        /\ client_ok /\ ~index_ok
        /\ calls[p].arg_id = NoId
        /\ calls[p].enable_rewrite
        /\ calls[p].result.answer = UnavailableIndex

----------------------------------------------------------------------------
(* Driver of _format_sources: one call for each list of one or two papers   *)
(* with complete metadata, whose distances are absent or lie in [0, 2].     *)

Distances == {NoDistance, 0, 1, 300, 1000, 1500, 2000}

FormatInputs ==
    {<<Paper("P1", d, "full")>> : d \in Distances}
    \cup {<<Paper("P1", d, "full"), Paper("P2", e, "full")>> :
             d \in Distances, e \in Distances}

FormatInit ==
    /\ conversations = << >>
    /\ now = 0
    /\ issued = {}
    /\ appended = << >>
    /\ rr = [phase |-> "unused"]
    /\ AgentUnused
    /\ \E papers \in FormatInputs :
          ret = [op |-> "_format_sources", phase |-> "called", papers |-> papers]

FormatReturn ==
    /\ ret.phase = "called"
    /\ ret' = [op |-> "_format_sources", phase |-> "returned",
               papers |-> ret.papers, value |-> format_sources(ret.papers)]
    /\ UNCHANGED <<storeVars, rr, agentVars>>

FormatNext == FormatReturn

SpecFormat == FormatInit /\ [][FormatNext]_vars

\* C20 as claimed: every paper with a distance d in [0, 2] gets the relevance
\* (1 - d) * 100 with one decimal, and a paper gets "N/A" exactly when it has
\* no distance.
RelevanceOfEveryDistance ==
    ret.phase = "returned" =>
        \A i \in 1..Len(ret.papers) :
            LET d == ret.papers[i].distance
                r == ret.value[i].relevance
            IN  /\ d # NoDistance => r = [na |-> FALSE, tenths |-> 1000 - d]
                /\ r.na <=> d = NoDistance

\* The same for the distances other than 0.
RelevanceOfNonZeroDistance ==
    ret.phase = "returned" =>
        \A i \in 1..Len(ret.papers) :
            LET d == ret.papers[i].distance
                r == ret.value[i].relevance
            IN  d # 0 =>
                  /\ d # NoDistance => r = [na |-> FALSE, tenths |-> 1000 - d]
                  /\ r.na <=> d = NoDistance

----------------------------------------------------------------------------
(* Driver of the agent, two callers in two threads: each calls answer or    *)
(* answer_stream once on the same stored conversation, and the steps of the *)
(* two calls interleave between any two accesses to the store. Neither      *)
(* enhanced_qa_agent.py nor conversation_manager.py takes a lock.           *)

SharedId == "c1"

\* The question of caller p, so that a message names its call.
QuestionOf(p) == IF p = MainCaller THEN "q1" ELSE "q2"

ConcurrentInit ==
    /\ AgentInit({SeededStore}, {Corpus})
    /\ client_ok
    /\ index_ok

ConcurrentCall(p) ==
    \E kind \in {"answer", "answer_stream"},
       enable_rewrite \in BOOLEAN, enable_rerank \in BOOLEAN :
        /\ kind = "answer_stream" => enable_rewrite /\ ~enable_rerank
        /\ Call(p, kind, QuestionOf(p), SharedId, 1, enable_rewrite, enable_rerank)

ConcurrentNext ==
    \E p \in Procs :
        \/ ConcurrentCall(p)
        \/ AnswerStep(p)
        \/ StreamStep(p)

SpecConcurrent == ConcurrentInit /\ [][ConcurrentNext]_vars

\* The call of p is over and has written to the history.
Persisted(p) == calls[p].pc = "done" /\ calls[p].answer # Absent

\* What the call of p adds to the history when it runs alone.
Exchange(p) ==
    IF Persisted(p)
    THEN << [role |-> "user", content |-> calls[p].question],
            [role |-> "assistant", content |-> calls[p].answer] >>
    ELSE <<>>

\* C2 as claimed: when the two calls on one conversation are over, its
\* history is the earlier history followed by the exchange of one call and
\* then the exchange of the other, each question immediately followed by the
\* answer of the same call. (A call's last write is its answer, so the order
\* of the answers in the history is the order in which the calls completed.)
HistoryIsSerialized ==
    (\A p \in Procs : calls[p].pc = "done") =>
        LET seed == Transcript(SeededStore[SharedId].messages)
            h    == Transcript(conversations[SharedId].messages)
        IN  \E p, q \in Procs :
               /\ p # q
               /\ h = seed \o Exchange(p) \o Exchange(q)

----------------------------------------------------------------------------
(* ConversationManager: the read, clear, delete and eviction operations.    *)

\* max_length of get_conversation_history: None, or an integer.
NoLimit == [none |-> TRUE, n |-> 0]
Limit(n) == [none |-> FALSE, n |-> n]

\* get_conversation: the conversation, or None (found = FALSE).
get_conversation(convs, id) ==
    IF id \in DOMAIN convs
    THEN [found |-> TRUE, conversation |-> convs[id]]
    ELSE [found |-> FALSE]

get_conversation_stats_of_any(convs, id) ==
    [found |-> TRUE, total_messages |-> 0, user_messages |-> 0,
     assistant_messages |-> 0, created_at |-> 0, last_activity |-> 0]

\* get_conversation_history: [] for an unknown id; messages[-max_length:]
\* when max_length is truthy (an integer other than 0), else every message.
get_conversation_history(convs, id, max_length) ==
    IF id \notin DOMAIN convs THEN <<>>
    ELSE IF ~max_length.none /\ max_length.n # 0
         THEN PySliceLast(convs[id].messages, max_length.n)
         ELSE convs[id].messages

clear_conversation_clears_all(convs, id) ==
    IF id \notin DOMAIN convs
    THEN [ok |-> FALSE, convs |-> convs]
    ELSE [ok |-> TRUE,
          convs |-> [i \in DOMAIN convs |-> [convs[i] EXCEPT !.messages = <<>>]]]

clear_conversation_deletes(convs, id) ==
    IF id \notin DOMAIN convs
    THEN [ok |-> FALSE, convs |-> convs]
    ELSE [ok |-> TRUE, convs |-> [i \in DOMAIN convs \ {id} |-> convs[i]]]

\* clear_conversation: False for an unknown id; else messages = [].
clear_conversation(convs, id) ==
    IF id \notin DOMAIN convs
    THEN [ok |-> FALSE, convs |-> convs]
    ELSE [ok |-> TRUE, convs |-> [convs EXCEPT ![id].messages = <<>>]]

delete_conversation_keeps_id(convs, id) ==
    IF id \in DOMAIN convs
    THEN [ok |-> TRUE, convs |-> [convs EXCEPT ![id].messages = <<>>]]
    ELSE [ok |-> FALSE, convs |-> convs]

\* delete_conversation: del conversations[id] and True, or False.
delete_conversation(convs, id) ==
    IF id \in DOMAIN convs
    THEN [ok |-> TRUE, convs |-> [i \in DOMAIN convs \ {id} |-> convs[i]]]
    ELSE [ok |-> FALSE, convs |-> convs]

\* get_conversation_stats: None (found = FALSE) for an unknown id.
get_conversation_stats(convs, id) ==
    IF id \notin DOMAIN convs THEN [found |-> FALSE]
    ELSE LET messages == convs[id].messages
         IN  [found |-> TRUE,
              total_messages |-> Len(messages),
              user_messages |->
                  Len(SelectSeq(messages, LAMBDA m : m.role = "user")),
              assistant_messages |->
                  Len(SelectSeq(messages, LAMBDA m : m.role = "assistant")),
              created_at |-> convs[id].created_at,
              last_activity |-> IF messages # <<>>
                                THEN messages[Len(messages)].timestamp
                                ELSE convs[id].created_at]

cleanup_by_last_activity(convs, t, max_age) ==
    LET cutoff_time == t - max_age
        to_delete == {id \in DOMAIN convs :
                        get_conversation_stats(convs, id).last_activity < cutoff_time}
    IN  [count |-> Cardinality(to_delete),
         convs |-> [i \in DOMAIN convs \ to_delete |-> convs[i]]]

\* cleanup_old_conversations at time t: every conversation whose created_at
\* is before t - max_age is deleted; the number deleted is returned.
\* created_at is written by datetime.now().isoformat() and read back by
\* datetime.fromisoformat(...).timestamp(), which give the same instant.
cleanup_old_conversations(convs, t, max_age) ==
    LET cutoff_time == t - max_age
        to_delete == {id \in DOMAIN convs : convs[id].created_at < cutoff_time}
    IN  [count |-> Cardinality(to_delete),
         convs |-> [i \in DOMAIN convs \ to_delete |-> convs[i]]]

----------------------------------------------------------------------------
(* Driver of the store operations: callers that create conversations,      *)
(* append to them, read them, clear, delete and evict them, with ids the    *)
(* store holds, ids it has deleted and ids it never issued. ret holds the   *)
(* last operation with the store it found, and the last write before it.    *)

MaxOpsMessages == 2
MaxAge == 2
MaxLimit == 1

\* The ids callers use: every id the store has issued, and one it never
\* issued.
OpsIds == issued \cup {StaleId}

WriteOps == {"create_conversation", "add_message", "clear_conversation",
             "delete_conversation", "cleanup_old_conversations"}

\* Operation, id and result of the last operation before this one that can
\* change the store.
Brief(r) ==
    IF r.op = "none" THEN [op |-> "none"]
    ELSE IF r.op \in WriteOps THEN [op |-> r.op, id |-> r.id, value |-> r.value]
    ELSE r.prev

Done(op, id, arg, value) ==
    [op |-> op, id |-> id, arg |-> arg, value |-> value,
     before |-> conversations, prev |-> Brief(ret)]

OpsFrame == UNCHANGED <<rr, agentVars>>

OpsCreate ==
    /\ \E id \in ConvIds \ issued :
        /\ conversations' = create_conversation(conversations, id, now)
        /\ issued' = issued \cup {id}
        /\ appended' = [i \in DOMAIN appended \cup {id} |->
                          IF i = id THEN <<>> ELSE appended[i]]
        /\ ret' = Done("create_conversation", id, <<>>, id)
    /\ now' = now + 1
    /\ OpsFrame

OpsAppend ==
    \E id \in OpsIds, role \in {"user", "assistant"} :
        LET r == add_message(conversations, id, role, "m", <<>>, now)
        IN  /\ TotalAppended(DOMAIN appended) < MaxOpsMessages
            /\ conversations' = r.convs
            /\ appended' = Logged(appended, id, r.ok,
                                  make_message(role, "m", <<>>, now))
            /\ now' = IF r.ok THEN now + 1 ELSE now
            /\ ret' = Done("add_message", id, role, r.ok)
            /\ UNCHANGED issued
            /\ OpsFrame

OpsGet ==
    \E id \in OpsIds :
        /\ ret' = Done("get_conversation", id, <<>>,
                       get_conversation(conversations, id))
        /\ UNCHANGED storeVars
        /\ OpsFrame

OpsHistory ==
    \E id \in OpsIds, max_length \in {NoLimit} \cup {Limit(n) : n \in 0..MaxLimit} :
        /\ ret' = Done("get_conversation_history", id, max_length,
                       get_conversation_history(conversations, id, max_length))
        /\ UNCHANGED storeVars
        /\ OpsFrame

OpsBuildContext ==
    \E id \in OpsIds, include_system \in BOOLEAN :
        /\ ret' = Done("build_context_messages", id, include_system,
                       build_context_messages(conversations, id, include_system))
        /\ UNCHANGED storeVars
        /\ OpsFrame

OpsClear ==
    \E id \in OpsIds :
        LET r == clear_conversation(conversations, id)
        IN  /\ conversations' = r.convs
            /\ ret' = Done("clear_conversation", id, <<>>, r.ok)
            /\ UNCHANGED <<now, issued, appended>>
            /\ OpsFrame

OpsDelete ==
    \E id \in OpsIds :
        LET r == delete_conversation(conversations, id)
        IN  /\ conversations' = r.convs
            /\ ret' = Done("delete_conversation", id, <<>>, r.ok)
            /\ UNCHANGED <<now, issued, appended>>
            /\ OpsFrame

OpsStats ==
    \E id \in OpsIds :
        /\ ret' = Done("get_conversation_stats", id, <<>>,
                       get_conversation_stats(conversations, id))
        /\ UNCHANGED storeVars
        /\ OpsFrame

OpsCleanup ==
    \E max_age \in 0..MaxAge :
        LET r == cleanup_old_conversations(conversations, now, max_age)
        IN  /\ conversations' = r.convs
            /\ ret' = Done("cleanup_old_conversations", NoId, max_age, r.count)
            /\ UNCHANGED <<now, issued, appended>>
            /\ OpsFrame

OpsNext ==
    \/ OpsCreate
    \/ OpsAppend
    \/ OpsGet
    \/ OpsHistory
    \/ OpsBuildContext
    \/ OpsClear
    \/ OpsDelete
    \/ OpsStats
    \/ OpsCleanup

SpecOps == StoreInit /\ [][OpsNext]_vars

\* The last operation took an id and found no conversation under it.
OnUnknownId ==
    /\ ret.op \in {"add_message", "get_conversation_history",
                   "build_context_messages", "clear_conversation",
                   "delete_conversation", "get_conversation_stats"}
    /\ ret.id \notin DOMAIN ret.before

\* The result of the last operation is falsy or empty.
FalsyResult ==
    CASE ret.op \in {"add_message", "clear_conversation", "delete_conversation"}
            -> ret.value = FALSE
      [] ret.op \in {"get_conversation_history", "build_context_messages"}
            -> ret.value = <<>>
      [] ret.op \in {"get_conversation_stats", "get_conversation"}
            -> ~ret.value.found

JustCleared ==
    /\ ret.op # "none"
    /\ ret.prev.op = "clear_conversation"
    /\ ret.prev.id = ret.id
    /\ ret.prev.value

\* C13: clear_conversation of a stored conversation returns True, empties
\* its messages and changes nothing else; the history read next is empty, an
\* append made next returns True and is the whole history, and a second
\* clear returns True and changes nothing.
ClearKeepsConversation ==
    /\ (ret.op = "clear_conversation" /\ ret.id \in DOMAIN ret.before) =>
          /\ ret.value = TRUE
          /\ conversations =
                [ret.before EXCEPT ![ret.id].messages = <<>>]
          /\ conversations[ret.id].created_at = ret.before[ret.id].created_at
    /\ (JustCleared /\ ret.op = "get_conversation_history") =>
          ret.value = <<>>
    /\ (JustCleared /\ ret.op = "add_message") =>
          /\ ret.value = TRUE
          /\ LET h == get_conversation_history(conversations, ret.id, NoLimit)
             IN  /\ Len(h) = 1
                 /\ h[1].role = ret.arg
                 /\ h[1].content = "m"
    /\ (JustCleared /\ ret.op = "clear_conversation") =>
          /\ ret.value = TRUE
          /\ conversations = ret.before

\* C13 witness: a conversation with a message was cleared and then appended
\* to.
AppendedAfterClear ==
    /\ JustCleared
    /\ ret.op = "add_message"
    /\ Len(appended[ret.id]) = 2
    /\ Len(conversations[ret.id].messages) = 1

\* The last operation took an id the store once issued and no longer holds.
OnRemovedId ==
    /\ ret.op \in {"add_message", "get_conversation_history",
                   "build_context_messages", "clear_conversation",
                   "delete_conversation", "get_conversation_stats",
                   "get_conversation"}
    /\ ret.id \in issued
    /\ ret.id \notin DOMAIN ret.before

\* C14: delete_conversation that returns True removes the conversation and
\* nothing else; every later operation on its id gives what it gives for an
\* id that never existed (False, the empty list, None) and leaves the store
\* without that conversation.
DeletedIdIsUnknown ==
    /\ (ret.op = "delete_conversation" /\ ret.value) =>
          /\ ret.id \in DOMAIN ret.before
          /\ conversations =
                [id \in DOMAIN ret.before \ {ret.id} |-> ret.before[id]]
    /\ (ret.op # "none" /\ ret.prev.op = "delete_conversation"
           /\ ret.prev.value /\ ret.prev.id = ret.id) =>
          OnRemovedId
    /\ OnRemovedId =>
          /\ conversations = ret.before
          /\ ret.id \notin DOMAIN conversations
          /\ IF ret.op = "build_context_messages"
             THEN ret.value = build_context_messages(ret.before, StaleId, ret.arg)
             ELSE FalsyResult

\* C14 witness: an append right after the delete_conversation of its id.
AppendedAfterDelete ==
    /\ ret.op = "add_message"
    /\ ret.prev.op = "delete_conversation"
    /\ ret.prev.value
    /\ ret.prev.id = ret.id
    /\ ret.value = FALSE

\* C15: cleanup_old_conversations removes the conversations created before
\* now - max_age, whatever their last message, keeps the others as they were
\* and returns the number removed.
CleanupByCreationTime ==
    ret.op = "cleanup_old_conversations" =>
        LET cutoff == now - ret.arg
            old    == {id \in DOMAIN ret.before :
                          ret.before[id].created_at < cutoff}
        IN  /\ DOMAIN conversations = DOMAIN ret.before \ old
            /\ \A id \in DOMAIN conversations : conversations[id] = ret.before[id]
            /\ ret.value = Cardinality(old)

\* C15 witness: of two conversations the older one was removed although its
\* last message is not older than the cutoff, and the newer one was kept.
CleanupRemovedActiveConversation ==
    /\ ret.op = "cleanup_old_conversations"
    /\ ret.value = 1
    /\ Cardinality(DOMAIN conversations) = 1
    /\ \E id \in DOMAIN ret.before \ DOMAIN conversations :
          /\ ret.before[id].messages # <<>>
          /\ get_conversation_stats(ret.before, id).last_activity >= now - ret.arg

\* The last operation read the history of a stored conversation.
HistoryRead ==
    /\ ret.op = "get_conversation_history"
    /\ ret.id \in DOMAIN conversations

\* C24 as claimed: the history of a stored conversation read with a limit
\* n >= 0 is its last min(n, len) messages, oldest first, and read without a
\* limit it is the whole history.
HistoryIsTail ==
    HistoryRead =>
        LET messages == conversations[ret.id].messages
        IN  ret.value = IF ret.arg.none
                        THEN messages
                        ELSE LastOf(messages, Min(ret.arg.n, Len(messages)))

\* The same for the limits other than 0.
HistoryIsTailForPositiveLimit ==
    (HistoryRead /\ (ret.arg.none \/ ret.arg.n # 0)) =>
        LET messages == conversations[ret.id].messages
        IN  ret.value = IF ret.arg.none
                        THEN messages
                        ELSE LastOf(messages, Min(ret.arg.n, Len(messages)))

----------------------------------------------------------------------------
(* Claims on what answer leaves in the history, checked in SpecSerial.      *)

\* The answer call of p was made on a stored conversation and passed the
\* availability checks.
AnswerRanOnStoredConversation(p) ==
    /\ AnswerReturned(p)
    /\ client_ok /\ index_ok
    /\ calls[p].arg_id \in DOMAIN calls[p].before

\* C25 as claimed: an answer call on a stored conversation that passed the
\* availability checks has added one user message, the question, and then
\* one assistant message, the returned answer, whichever step failed.
AnswerAddsOneExchange ==
    \A p \in Procs : AnswerRanOnStoredConversation(p) =>
        Transcript(conversations[calls[p].arg_id].messages) =
            Transcript(HistoryBefore(p)) \o
            << [role |-> "user", content |-> calls[p].question],
               [role |-> "assistant", content |-> calls[p].result.answer] >>

\* The same for the calls in which _format_sources did not raise.
AnswerAddsOneExchangeUnlessFormatRaises ==
    \A p \in Procs :
        (AnswerRanOnStoredConversation(p)
            /\ ~format_sources_raises(calls[p].relevant_papers)) =>
        Transcript(conversations[calls[p].arg_id].messages) =
            Transcript(HistoryBefore(p)) \o
            << [role |-> "user", content |-> calls[p].question],
               [role |-> "assistant", content |-> calls[p].result.answer] >>

\* C26 as claimed: the conversation_id an answer call returns, whatever id
\* it was given, is the id of a stored conversation whose history ends with
\* the question and the answer of the call.
ReturnedIdIsStored ==
    \A p \in Procs :
        (AnswerReturned(p) /\ calls[p].result.conversation_id # Absent) =>
            /\ calls[p].result.conversation_id \in DOMAIN conversations
            /\ LET h == Transcript(
                          conversations[calls[p].result.conversation_id].messages)
               IN  /\ Len(h) >= 2
                   /\ h[Len(h) - 1].role = "user"
                   /\ h[Len(h) - 1].content = calls[p].question
                   /\ h[Len(h)].role = "assistant"
                   /\ h[Len(h)].content = calls[p].result.answer

\* The same for the calls given no id or the id of a stored conversation.
ReturnedIdIsStoredUnlessStale ==
    \A p \in Procs :
        (/\ AnswerReturned(p) /\ calls[p].result.conversation_id # Absent
         /\ calls[p].arg_id \in {NoId} \cup DOMAIN calls[p].before) =>
            /\ calls[p].result.conversation_id \in DOMAIN conversations
            /\ LET h == Transcript(
                          conversations[calls[p].result.conversation_id].messages)
               IN  /\ Len(h) >= 2
                   /\ h[Len(h) - 1].role = "user"
                   /\ h[Len(h) - 1].content = calls[p].question
                   /\ h[Len(h)].role = "assistant"
                   /\ h[Len(h)].content = calls[p].result.answer

----------------------------------------------------------------------------
(* A claim on the output of rerank_results, checked in SpecRerank.          *)

\* C27 as claimed: whatever the model replies, the output has at most top_k
\* elements, each of them one of the candidates, and none of them twice.
RerankOutputIsDistinct ==
    rr.phase = "returned" =>
        LET out == rr.out.value
        IN  /\ Len(out) <= rr.top_k
            /\ \A i \in 1..Len(out) :
                  \E j \in 1..Len(rr.candidates) : out[i] = rr.candidates[j]
            /\ \A i, j \in 1..Len(out) : i # j => out[i] # out[j]

\* The same without the claim that no candidate comes twice.
RerankOutputIsOfCandidates ==
    rr.phase = "returned" =>
        LET out == rr.out.value
        IN  /\ Len(out) <= rr.top_k
            /\ \A i \in 1..Len(out) :
                  \E j \in 1..Len(rr.candidates) : out[i] = rr.candidates[j]

----------------------------------------------------------------------------
(* Driver of two conversations used side by side: a caller runs answer or   *)
(* answer_stream on one conversation while other callers append to, clear   *)
(* and delete either conversation, in any interleaving.                     *)

MaxIsoMessages == 3

\* The store with two conversations, each after one question and answer.
TwoStore ==
    LET created == create_conversation(SeededStore, "c2", 3)
        asked   == add_message(created, "c2", "user", "q0", <<>>, 4).convs
    IN  add_message(asked, "c2", "assistant", "a0", <<>>, 5).convs

\* The conversation the pipeline call works on.
PipelineTarget == "c1"

IsoInit ==
    /\ conversations = TwoStore
    /\ corpus = Corpus
    /\ now = 6
    /\ issued = DOMAIN conversations
    /\ appended = [id \in DOMAIN conversations |-> conversations[id].messages]
    /\ ret = [op |-> "none"]
    /\ rr = [phase |-> "unused"]
    /\ client_ok = TRUE
    /\ index_ok = TRUE
    /\ calls = [p \in Procs |-> IdleCall]
    /\ sched = SchedulerUnused

IsoCall ==
    \E kind \in {"answer", "answer_stream"} :
        Call(MainCaller, kind, "q1", PipelineTarget, 1, kind = "answer_stream", FALSE)

IsoFrame == UNCHANGED <<rr, client_ok, index_ok, corpus, calls, sched>>

IsoAppend ==
    \E id \in ConvIds :
        LET r == add_message(conversations, id, "user", "m", <<>>, now)
        IN  /\ Len(appended[id]) < MaxIsoMessages
            /\ conversations' = r.convs
            /\ appended' = Logged(appended, id, r.ok,
                                  make_message("user", "m", <<>>, now))
            /\ now' = IF r.ok THEN now + 1 ELSE now
            /\ ret' = [op |-> "add_message", id |-> id, value |-> r.ok]
            /\ UNCHANGED issued
            /\ IsoFrame

IsoClear ==
    \E id \in ConvIds :
        LET r == clear_conversation(conversations, id)
        IN  /\ conversations' = r.convs
            /\ ret' = [op |-> "clear_conversation", id |-> id, value |-> r.ok]
            /\ UNCHANGED <<now, issued, appended>>
            /\ IsoFrame

IsoDelete ==
    \E id \in ConvIds :
        LET r == delete_conversation(conversations, id)
        IN  /\ conversations' = r.convs
            /\ ret' = [op |-> "delete_conversation", id |-> id, value |-> r.ok]
            /\ UNCHANGED <<now, issued, appended>>
            /\ IsoFrame

IsoNext ==
    \/ IsoCall
    \/ AnswerStep(MainCaller)
    \/ StreamStep(MainCaller)
    \/ IsoAppend
    \/ IsoClear
    \/ IsoDelete

SpecIso == IsoInit /\ [][IsoNext]_vars

\* This step is a store operation on an id other than B, or a step of a
\* pipeline call on a conversation other than B.
StepTargetsOther(B) ==
    \/ /\ ret' # ret
       /\ ret'.id # B
    \/ \E p \in Procs :
          /\ calls'[p] # calls[p]
          /\ calls'[p].conversation_id # B

\* C22: a step of an append, clear, delete or pipeline call on one
\* conversation leaves every other conversation in the store, with the
\* messages and the creation time it had.
OtherConversationsUntouched ==
    [][\A B \in DOMAIN conversations :
          StepTargetsOther(B) =>
              /\ B \in DOMAIN conversations'
              /\ conversations'[B].messages = conversations[B].messages
              /\ conversations'[B].created_at = conversations[B].created_at]_vars

\* C22 witness: one conversation was deleted while a pipeline call on the
\* other had recorded its question, and that one still has its messages.
DeletedBesideRunningCall ==
    /\ ret = [op |-> "delete_conversation", id |-> "c2", value |-> TRUE]
    /\ "c1" \in DOMAIN conversations
    /\ calls[MainCaller].pc = "persist_assistant"
    /\ Len(conversations["c1"].messages) = 3

----------------------------------------------------------------------------
(* scheduler.py, TaskScheduler with synchronous interval tasks. The clock   *)
(* counts minutes: the loop waits one minute between two passes, and the    *)
(* tasks have interval_minutes = 1. A loop thread is at "top" (the while    *)
(* test), "for" (the pass over the tasks), "sleep" or "ended"; a worker     *)
(* thread is "created" (started, its target not yet called), "running"      *)
(* (inside the task function) or "finished".                                *)

MaxStarts == 2
MaxClock == 2
MaxWorkers == 3

\* last_run = None
NeverRun == -1

\* self.tasks in insertion order.
TaskOrder == <<"task_a", "task_b">>

IntervalTask == [last_run |-> NeverRun, interval_minutes |-> 1, enabled |-> TRUE]

\* _should_run_interval_task at time t.
should_run_interval_task(task, t) ==
    IF task.last_run = NeverRun
    THEN TRUE
    ELSE t - task.last_run >= task.interval_minutes

\* The locals of a _scheduler_loop thread: idx is the position of the for
\* loop, name the task its variables name and task are bound to ("" before
\* the first pass), since the number of the start() under which it last
\* passed the while test.
NewLoop == [pc |-> "top", idx |-> 0, name |-> "", wake_at |-> 0, since |-> 0]

\* A thread started at line 165 by loop l for the task `due`, whose
\* due-check succeeded; runs is the task its target executes.
NewWorker(l, due) == [loop |-> l, due |-> due, pc |-> "created", runs |-> ""]

SchedFrame == UNCHANGED <<storeVars, ret, rr, client_ok, index_ok, corpus, calls>>

SchedInit ==
    /\ conversations = << >>
    /\ now = 0
    /\ issued = {}
    /\ appended = << >>
    /\ ret = [op |-> "none"]
    /\ rr = [phase |-> "unused"]
    /\ client_ok = FALSE
    /\ index_ok = FALSE
    /\ corpus = << >>
    /\ calls = << >>
    /\ sched = [running |-> FALSE, joining |-> FALSE, starts |-> 0, clock |-> 0,
                tasks |-> [n \in {TaskOrder[i] : i \in 1..Len(TaskOrder)} |->
                              IntervalTask],
                loops |-> << >>, workers |-> << >>]

\* start(): nothing when running is set; else running is set and a new
\* loop thread is started.
SchedStart ==
    /\ ~sched.joining
    /\ ~sched.running
    /\ sched.starts < MaxStarts
    /\ sched' = [sched EXCEPT !.running = TRUE,
                              !.starts = @ + 1,
                              !.loops = Append(@, NewLoop)]
    /\ SchedFrame

\* stop(), lines 195-196: running is cleared and the caller joins the
\* loop thread of the last start().
SchedStop ==
    /\ ~sched.joining
    /\ sched.running
    /\ sched' = [sched EXCEPT !.running = FALSE, !.joining = TRUE]
    /\ SchedFrame

\* stop(), line 197: join(timeout=5) returns when the loop thread has ended,
\* or after 5 seconds. The steps of the loop take no time here, so the
\* timeout elapses only while the loop thread is in its 60-second wait.
SchedJoinReturn ==
    /\ sched.joining
    /\ sched.loops[Len(sched.loops)].pc \in {"ended", "sleep"}
    /\ sched' = [sched EXCEPT !.joining = FALSE]
    /\ SchedFrame

\* A minute passes.
SchedTick ==
    /\ sched.clock < MaxClock
    /\ sched' = [sched EXCEPT !.clock = @ + 1]
    /\ SchedFrame

\* Line 139: while self.running.
LoopTop(l) ==
    /\ sched.loops[l].pc = "top"
    /\ sched' = IF sched.running
                THEN [sched EXCEPT !.loops[l].pc = "for",
                                   !.loops[l].idx = 1,
                                   !.loops[l].since = sched.starts]
                ELSE [sched EXCEPT !.loops[l].pc = "ended"]
    /\ SchedFrame

\* Lines 143-168, one turn of the for loop: name and task are bound to the
\* next task, and when it is enabled and due a worker thread is started
\* whose target is a lambda over the variables name and task.
LoopTask(l) ==
    /\ sched.loops[l].pc = "for"
    /\ sched.loops[l].idx <= Len(TaskOrder)
    /\ LET name == TaskOrder[sched.loops[l].idx]
           task == sched.tasks[name]
           due  == task.enabled /\ should_run_interval_task(task, sched.clock)
       IN  /\ due => Len(sched.workers) < MaxWorkers
           /\ sched' = [sched EXCEPT
                  !.loops[l].name = name,
                  !.loops[l].idx = @ + 1,
                  !.workers = IF due THEN Append(@, NewWorker(l, name)) ELSE @]
    /\ SchedFrame

\* Line 171: the for loop is over, the thread waits 60 seconds.
LoopSleep(l) ==
    /\ sched.loops[l].pc = "for"
    /\ sched.loops[l].idx > Len(TaskOrder)
    /\ sched' = [sched EXCEPT !.loops[l].pc = "sleep",
                              !.loops[l].wake_at = sched.clock + 1]
    /\ SchedFrame

\* The wait is over.
LoopWake(l) ==
    /\ sched.loops[l].pc = "sleep"
    /\ sched.clock >= sched.loops[l].wake_at
    /\ sched' = [sched EXCEPT !.loops[l].pc = "top"]
    /\ SchedFrame

\* The worker thread calls its target: the lambda reads the variables name
\* and task of the loop that started it, as they are bound at this moment.
WorkerBegin(w) ==
    /\ sched.workers[w].pc = "created"
    /\ sched' = [sched EXCEPT
           !.workers[w].pc = "running",
           !.workers[w].runs = sched.loops[sched.workers[w].loop].name]
    /\ SchedFrame

\* Lines 127-130: the task function returns and last_run of the task that
\* _run_task was given is set.
WorkerFinish(w) ==
    /\ sched.workers[w].pc = "running"
    /\ sched' = [sched EXCEPT
           !.workers[w].pc = "finished",
           !.tasks[sched.workers[w].runs].last_run = sched.clock]
    /\ SchedFrame

\* Lines 132-133: the task function raises; last_run is not set.
WorkerFail(w) ==
    /\ sched.workers[w].pc = "running"
    /\ sched' = [sched EXCEPT !.workers[w].pc = "finished"]
    /\ SchedFrame

SchedNext ==
    \/ SchedStart
    \/ SchedStop
    \/ SchedJoinReturn
    \/ SchedTick
    \/ \E l \in 1..Len(sched.loops) :
          LoopTop(l) \/ LoopTask(l) \/ LoopSleep(l) \/ LoopWake(l)
    \/ \E w \in 1..Len(sched.workers) :
          WorkerBegin(w) \/ WorkerFinish(w) \/ WorkerFail(w)

SpecSched == SchedInit /\ [][SchedNext]_vars

\* The worker thread w is inside the task function.
Executing(w) == sched.workers[w].pc = "running"

\* C28 as claimed: no two worker threads are executing the same task at
\* the same time.
NoOverlappingRuns ==
    \A v, w \in 1..Len(sched.workers) :
        (v # w /\ Executing(v) /\ Executing(w)) =>
            sched.workers[v].runs # sched.workers[w].runs

\* The same for a scheduler started once whose workers all run the task
\* they were started for: it fails as well, by the due-check alone.
NoOverlappingRunsOfOneLoop ==
    (sched.starts <= 1
        /\ \A w \in 1..Len(sched.workers) :
              sched.workers[w].pc # "created" =>
                  sched.workers[w].runs = sched.workers[w].due)
    => NoOverlappingRuns

\* The loop threads that passed the while test under the last start() and
\* have not ended: they check and run tasks.
ActiveLoops ==
    {l \in 1..Len(sched.loops) :
        /\ sched.loops[l].pc \in {"for", "sleep"}
        /\ sched.loops[l].since = sched.starts}

\* C29 as claimed: whatever start() and stop() calls were made, at most one
\* loop thread is checking and running tasks.
AtMostOneLoop == Cardinality(ActiveLoops) <= 1

\* C30 as claimed: a worker thread executes the task whose due-check made
\* the loop start it, and sets last_run of that task.
WorkerRunsDueTask ==
    \A w \in 1..Len(sched.workers) :
        sched.workers[w].pc \in {"running", "finished"} =>
            sched.workers[w].runs = sched.workers[w].due

\* The same for a scheduler started once: it fails as well.
WorkerRunsDueTaskOfOneLoop == sched.starts <= 1 => WorkerRunsDueTask

====
